---- MODULE Spec2Model ----
(***************************************************************************)
(* Model of the affect-stabilisation and conversation engine of            *)
(* Emotional-Therapy:                                                      *)
(*   - client/src/lib/faceApiLoader.ts  (model loader, detection window,    *)
(*     stable-emotion query)                                               *)
(*   - client/src/lib/puterService.ts   (completion client)                 *)
(*   - the conversation session used by pages/VoiceTherapy.tsx and          *)
(*     pages/TextTherapy.tsx                                               *)
(* Confidences are integers in hundredths (0.2 is 20); a quotient is kept   *)
(* as the pair of its numerator and denominator.                           *)
(***************************************************************************)
EXTENDS Integers, Sequences, FiniteSets, TLC

VARIABLES
    \* ---- faceApiLoader.ts ----
    isModelLoading,   \* module flag, line 6
    modelsLoaded,     \* module flag, line 7
    emotionHistory,   \* module array, line 10 (oldest first)
    loadPc,           \* per call site of loadFaceModel: where its call stands
    loadHow,          \* per call site: how its last call ended
    detectPending,    \* detectFacialEmotion calls suspended at the classifier await
    overtaken,        \* per suspended call, oldest invocation first: was the newest
                      \* sample of the window pushed by a call invoked after it
    lastDetect,       \* what the last settled detectFacialEmotion call did and returned
    \* ---- puterService.ts and the conversation session of a page ----
    puter,            \* window.puter: "undefined", "noAi", "real" or "fallback"
    page,             \* the mounted page: "voice" (VoiceTherapy) or "text" (TextTherapy)
    currentEmotion,   \* the page's currentEmotion state
    currentVocalTone, \* VoiceTherapy's currentVocalTone state
    ageGroup,         \* the session's age group (usePuterAI)
    messages,         \* the session's message list
    processing,       \* the session's single-flight flag (isProcessing)
    turns,            \* accepted sends so far; turn t is the t-th accepted send
    lastSend,         \* how the last send attempt ended
    calls,            \* per turn: its getEmotionalSupportResponse call
    \* ---- puterService.ts, formatPrompt ----
    promptParams,     \* the PromptParams of a call of formatPrompt
    formattedPrompt,  \* the string it returned, as the pieces appended; <<>> before
    \* ---- StatsPage.tsx, loadData ----
    voiceTones,       \* the tones of the stored vocal samples, oldest first
    voiceData         \* their EmotionData emotions; <<>> before the conversion

faceVars == <<isModelLoading, modelsLoaded, emotionHistory, loadPc, loadHow,
              detectPending, overtaken, lastDetect>>

chatVars == <<puter, page, currentEmotion, currentVocalTone, ageGroup, messages, processing,
              turns, lastSend, calls>>

promptVars == <<promptParams, formattedPrompt>>

statsVars == <<voiceTones, voiceData>>

vars == <<faceVars, chatVars, promptVars, statsVars>>

----------------------------------------------------------------------------
(* Program constants of faceApiLoader.ts *)

HISTORY_LENGTH == 5
MIN_CONFIDENCE == 20

(* Bounds of the model *)

\* detectFacialEmotion calls that may be suspended at the classifier at once
MaxPending == 2

\* Sends a session accepts before the model stops it
MaxTurns == 2

----------------------------------------------------------------------------
(* Values *)

Null == [kind |-> "null"]

\* A missing value where the present ones are strings (undefined, or a null Emotion)
NoEmotion == "(none)"

\* The call sites of loadFaceModel: App's preload effect and VoiceTherapy's loadModels
Callers == {"App", "VoiceTherapy"}

\* The three awaited loads of loadFaceModel, in source order
LoadStages == <<"tinyFaceDetector", "faceLandmark68Net", "faceExpressionNet">>

StageNames == {LoadStages[i] : i \in 1..Len(LoadStages)}

\* The Emotion labels: the values of emotionMap
Emotions == {"neutral", "happy", "sad", "angry", "fearful", "disgusted", "surprised"}

\* emotionMap of detectFacialEmotion: expression key -> Emotion (undefined otherwise)
emotionMap(expression) ==
    IF expression \in Emotions
    THEN expression
    ELSE NoEmotion

\* An expressions object as its Object.entries sequence: the seven scores in
\* face-api's key order, then any further keys
Expr(n, h, s, a, f, d, su) ==
    << [expression |-> "neutral",   confidence |-> n],
       [expression |-> "happy",     confidence |-> h],
       [expression |-> "sad",       confidence |-> s],
       [expression |-> "angry",     confidence |-> a],
       [expression |-> "fearful",   confidence |-> f],
       [expression |-> "disgusted", confidence |-> d],
       [expression |-> "surprised", confidence |-> su] >>

\* The classifier results the model feeds to detectFacialEmotion
ExpressionInputs ==
    { Expr(5, 90, 3, 1, 0, 1, 0),        \* happy at 0.90
      Expr(10, 80, 5, 5, 0, 0, 0),       \* happy at 0.80
      Expr(10, 20, 30, 30, 0, 0, 0),     \* sad and angry tie at 0.30: the first key wins
      Expr(20, 20, 20, 20, 20, 0, 0),    \* neutral exactly at the floor
      Expr(19, 10, 19, 0, 0, 0, 0),      \* best score just below the floor
      Expr(0, 0, 0, 0, 0, 0, 0),         \* nothing scores
      Append(Expr(0, 10, 0, 0, 0, 0, 0),
             [expression |-> "contempt", confidence |-> 95]) }  \* best key is unmapped

DetectOutcomes ==
    {[kind |-> "throw"], [kind |-> "noFace"]}
        \cup {[kind |-> "face", expressions |-> e] : e \in ExpressionInputs}

----------------------------------------------------------------------------
(* detectFacialEmotion, lines 94-113: the dominant expression and the window *)

RECURSIVE DominantFrom(_, _, _, _)
\* The forEach of lines 97-102 from entry i on, with the running maximum
DominantFrom(entries, i, maxConfidence, dominantEmotion) ==
    IF i > Len(entries)
    THEN [emotion |-> dominantEmotion, confidence |-> maxConfidence]
    ELSE IF entries[i].confidence > maxConfidence /\ emotionMap(entries[i].expression) # NoEmotion
         THEN DominantFrom(entries, i + 1, entries[i].confidence,
                           emotionMap(entries[i].expression))
         ELSE DominantFrom(entries, i + 1, maxConfidence, dominantEmotion)

\* Lines 94-102: maxConfidence = 0, dominantEmotion = 'neutral', then the forEach
Dominant(expressions) == DominantFrom(expressions, 1, 0, "neutral")

\* Mutant: the floor test is missing
BelowFloor_NoFloor(sample) == FALSE

\* Line 104: the sample is dropped when its confidence is below the floor
BelowFloor(sample) == sample.confidence < MIN_CONFIDENCE

\* Line 109: the array has grown past its capacity
Overflows(history) == Len(history) > HISTORY_LENGTH

\* Mutant: unshift() in place of push(), the sample becomes the oldest entry
PushSample_Unshift(history, sample) ==
    LET pushed == <<sample>> \o history
    IN  IF Overflows(pushed) THEN Tail(pushed) ELSE pushed

\* Mutant: pop() in place of shift(), the newest entry is removed
PushSample_Pop(history, sample) ==
    LET pushed == Append(history, sample)
    IN  IF Overflows(pushed) THEN SubSeq(pushed, 1, Len(pushed) - 1) ELSE pushed

\* Lines 108-111: push, then shift once when the array is longer than HISTORY_LENGTH
PushSample(history, sample) ==
    LET pushed == Append(history, sample)
    IN  IF Overflows(pushed) THEN Tail(pushed) ELSE pushed

----------------------------------------------------------------------------
(* getStableEmotion, lines 128-160 *)

\* Map insertion: a Map as the sequence of its entries in insertion order
RECURSIVE MapIndex(_, _, _)
MapIndex(map, key, i) ==
    IF i > Len(map) THEN 0
    ELSE IF map[i].key = key THEN i ELSE MapIndex(map, key, i + 1)

MapGet(map, key) ==
    LET i == MapIndex(map, key, 1) IN IF i = 0 THEN 0 ELSE map[i].value

MapSet(map, key, value) ==
    LET i == MapIndex(map, key, 1)
    IN  IF i = 0 THEN Append(map, [key |-> key, value |-> value])
        ELSE [map EXCEPT ![i].value = value]

RECURSIVE CountFrom(_, _, _, _)
\* Lines 135-138: the forEach over the history, from entry i on
CountFrom(history, i, emotionCounts, totalConfidence) ==
    IF i > Len(history)
    THEN [emotionCounts |-> emotionCounts, totalConfidence |-> totalConfidence]
    ELSE CountFrom(history, i + 1,
                   MapSet(emotionCounts, history[i].emotion,
                          MapGet(emotionCounts, history[i].emotion) + 1),
                   totalConfidence + history[i].confidence)

RECURSIVE MostFrequentFrom(_, _, _, _)
\* Lines 141-149: the forEach over the Map, in insertion order, from entry i on
MostFrequentFrom(emotionCounts, i, maxCount, stableEmotion) ==
    IF i > Len(emotionCounts)
    THEN [maxCount |-> maxCount, stableEmotion |-> stableEmotion]
    ELSE IF emotionCounts[i].value > maxCount
         THEN MostFrequentFrom(emotionCounts, i + 1, emotionCounts[i].value,
                               emotionCounts[i].key)
         ELSE MostFrequentFrom(emotionCounts, i + 1, maxCount, stableEmotion)

\* Mutant: the quorum is rounded down
CeilHalf_Floor(n) == n \div 2

\* Math.ceil(n / 2)
CeilHalf(n) == (n + 1) \div 2

\* Mutant: a verdict from two samples on
TooFewSamples_Two(history) == Len(history) < 2

\* Line 129: too few samples for a verdict
TooFewSamples(history) == Len(history) < 3

\* Mutant: the quorum must be exceeded, not only met
Quorum_Strict(maxCount, n) == maxCount > CeilHalf(n)

\* Line 152: the quorum test
Quorum(maxCount, n) == maxCount >= CeilHalf(n)

\* Mutant: only the confidences of the most frequent emotion are added up
CountHistory_WinnerOnly(history) ==
    LET all    == CountFrom(history, 1, <<>>, 0)
        winner == MostFrequentFrom(all.emotionCounts, 1, 0, NoEmotion).stableEmotion
    IN  [emotionCounts   |-> all.emotionCounts,
         totalConfidence |->
             CountFrom(SelectSeq(history, LAMBDA e : e.emotion = winner), 1, <<>>, 0)
                 .totalConfidence]

\* Lines 132-138 for a whole history
CountHistory(history) == CountFrom(history, 1, <<>>, 0)

getStableEmotion(history) ==
    IF TooFewSamples(history) THEN Null
    ELSE LET counted == CountHistory(history)
             best    == MostFrequentFrom(counted.emotionCounts, 1, 0, NoEmotion)
         IN  IF best.stableEmotion # NoEmotion /\ Quorum(best.maxCount, Len(history))
             THEN [kind       |-> "verdict",
                   emotion    |-> best.stableEmotion,
                   confidence |-> [num |-> counted.totalConfidence,
                                   den |-> Len(history)]]
             ELSE Null

----------------------------------------------------------------------------
(* loadFaceModel, lines 17-61 *)

\* Mutant: the loading flag is not consulted
LoadSkips_LoadedOnly == modelsLoaded

\* Mutant: the loaded flag is not consulted
LoadSkips_LoadingOnly == isModelLoading

\* Line 18: the early return
LoadSkips == modelsLoaded \/ isModelLoading

\* A call of loadFaceModel up to its first await (lines 18-34), or its early return
LoadCall(c) ==
    /\ loadPc[c] \in {"idle", "resolved", "rejected"}
    /\ IF LoadSkips
       THEN /\ loadPc' = [loadPc EXCEPT ![c] = "resolved"]
            /\ loadHow' = [loadHow EXCEPT ![c] =
                              IF modelsLoaded THEN "skippedLoaded" ELSE "skippedLoading"]
            /\ UNCHANGED isModelLoading
       ELSE /\ isModelLoading' = TRUE
            /\ loadPc' = [loadPc EXCEPT ![c] = LoadStages[1]]
            /\ loadHow' = [loadHow EXCEPT ![c] = "loading"]
    /\ UNCHANGED <<modelsLoaded, emotionHistory, detectPending, overtaken, lastDetect, chatVars, promptVars, statsVars>>

StageIndex(stage) == CHOOSE i \in 1..Len(LoadStages) : LoadStages[i] = stage

\* An awaited loadFromUri resolves: the next load starts, or lines 49-50 and 59 run
LoadStageDone(c) ==
    /\ loadPc[c] \in StageNames
    /\ LET i == StageIndex(loadPc[c])
       IN  IF i < Len(LoadStages)
           THEN /\ loadPc' = [loadPc EXCEPT ![c] = LoadStages[i + 1]]
                /\ UNCHANGED <<modelsLoaded, isModelLoading, loadHow>>
           ELSE /\ modelsLoaded' = TRUE
                /\ isModelLoading' = FALSE
                /\ loadPc' = [loadPc EXCEPT ![c] = "resolved"]
                /\ loadHow' = [loadHow EXCEPT ![c] = "loaded"]
    /\ UNCHANGED <<emotionHistory, detectPending, overtaken, lastDetect, chatVars, promptVars, statsVars>>

\* An awaited loadFromUri rejects: lines 44-47 rethrow, lines 51-57 log and clear
\* modelsLoaded, line 59 clears isModelLoading.  JSON.stringify(error) on line 53
\* throws for an error it cannot serialise; then line 57 is skipped, the finally
\* block still runs and the call rejects.
LoadStageFailed(c, serialisable) ==
    /\ loadPc[c] \in StageNames
    /\ isModelLoading' = FALSE
    /\ IF serialisable
       THEN /\ modelsLoaded' = FALSE
            /\ loadPc' = [loadPc EXCEPT ![c] = "resolved"]
            /\ loadHow' = [loadHow EXCEPT ![c] = "failed"]
       ELSE /\ UNCHANGED modelsLoaded
            /\ loadPc' = [loadPc EXCEPT ![c] = "rejected"]
            /\ loadHow' = [loadHow EXCEPT ![c] = "failed"]
    /\ UNCHANGED <<emotionHistory, detectPending, overtaken, lastDetect, chatVars, promptVars, statsVars>>

\* isModelLoaded, line 126
isModelLoaded == modelsLoaded

----------------------------------------------------------------------------
(* detectFacialEmotion, lines 70-118 *)

\* Line 73 and the call up to the classifier await of lines 76-78
DetectCall(video) ==
    /\ IF ~modelsLoaded \/ ~video
       THEN /\ lastDetect' = [kind |-> "notReady", returned |-> Null]
            /\ UNCHANGED <<detectPending, overtaken>>
       ELSE /\ detectPending < MaxPending
            /\ detectPending' = detectPending + 1
            /\ overtaken' = Append(overtaken, FALSE)
            /\ UNCHANGED lastDetect
    /\ UNCHANGED <<isModelLoading, modelsLoaded, emotionHistory, loadPc, loadHow, chatVars, promptVars, statsVars>>

\* Mutant: a frame without a face leaves a neutral placeholder in the window
NoDetection_Placeholder(history) ==
    [history  |-> PushSample(history, [emotion |-> "neutral", confidence |-> MIN_CONFIDENCE]),
     returned |-> Null]

\* Line 80: no face in the frame, the call returns null before the window is touched
NoDetection(history) == [history |-> history, returned |-> Null]

\* The suspended calls without the i-th
Resumed(pending, i) ==
    [j \in 1..(Len(pending) - 1) |-> IF j < i THEN pending[j] ELSE pending[j + 1]]

\* Line 107 run by the i-th suspended call: the newest sample of the window is
\* now one of a call invoked after the calls before it and before the calls after it
Overtake(pending, i) ==
    [j \in 1..(Len(pending) - 1) |-> j < i]

\* The classifier of one of the suspended calls, the i-th, settles with outcome
\* o and the call runs to its return; the calls need not settle in the order
\* of their invocation
DetectSettle(o) ==
    /\ detectPending > 0
    /\ detectPending' = detectPending - 1
    /\ IF o.kind = "throw"
       THEN /\ lastDetect' = [kind |-> "threw", returned |-> Null]      \* lines 114-117
            /\ UNCHANGED emotionHistory
            /\ \E i \in 1..detectPending : overtaken' = Resumed(overtaken, i)
       ELSE IF o.kind = "noFace"
       THEN /\ lastDetect' = [kind     |-> "noFace",
                               returned |-> NoDetection(emotionHistory).returned]
            /\ emotionHistory' = NoDetection(emotionHistory).history
            /\ \E i \in 1..detectPending : overtaken' = Resumed(overtaken, i)
       ELSE LET sample == Dominant(o.expressions)
            IN  IF BelowFloor(sample)
                THEN /\ lastDetect' = [kind |-> "belowFloor", returned |-> Null]  \* line 104
                     /\ UNCHANGED emotionHistory
                     /\ \E i \in 1..detectPending : overtaken' = Resumed(overtaken, i)
                ELSE /\ emotionHistory' = PushSample(emotionHistory, sample)
                     /\ lastDetect' = [kind |-> IF Overflows(Append(emotionHistory, sample))
                                                THEN "admittedEvicting" ELSE "admitted",
                                       returned |-> sample]
                     /\ \E i \in 1..detectPending : overtaken' = Overtake(overtaken, i)
    /\ UNCHANGED <<isModelLoading, modelsLoaded, loadPc, loadHow, chatVars, promptVars, statsVars>>

----------------------------------------------------------------------------
(* puterService.ts: formatPrompt, lines 41-89.  The returned string is kept  *)
(* as the sequence of the pieces appended to it, each piece with the values  *)
(* interpolated into it.                                                     *)

\* A parameter the caller left out
Omitted == "(omitted)"

\* Bound: the longest conversation history handed to formatPrompt
MaxHistory == 12

\* A history of n messages, user and assistant in turn, the i-th with content i
HistoryOf(n) ==
    [i \in 1..n |-> [role |-> IF i % 2 = 1 THEN "user" ELSE "assistant", content |-> i]]

\* The PromptParams formatPrompt is called with
PromptInputs ==
    [message          : {<<"A">>, <<" ", "B">>},
     detected         : [emotion : {NoEmotion, "sad"}, toneOfVoice : {NoEmotion, "calm"}],
     ageGroup         : {"children", "teenagers", "adults", Omitted},
     previousMessages : {HistoryOf(n) : n \in 0..MaxHistory}]

\* DEFAULT_SYSTEM_MESSAGE, lines 12-25
DEFAULT_SYSTEM_MESSAGE ==
    [piece |-> "system",
     text  |-> "You are a compassionate AI mental health assistant. ..."]

\* Line 52
ChildGuidance ==
    [piece |-> "age",
     text  |-> "The user is a child, so use simple language, short sentences, and concrete examples. Be patient, encouraging, and use a warm, friendly tone."]

\* Line 54
TeenagerGuidance ==
    [piece |-> "age",
     text  |-> "The user is a teenager, so use accessible language but don't oversimplify. Be genuine, avoid talking down, and acknowledge their capacity for complex emotions."]

\* Mutant: every age group but adults gets the guidance for children
AgeGuidance_ChildForAll(group) ==
    IF group # "adults" THEN <<ChildGuidance>> ELSE <<>>

\* Lines 51-55: the age-appropriate guidance
AgeGuidance(group) ==
    IF group = "children" THEN <<ChildGuidance>>
    ELSE IF group = "teenagers" THEN <<TeenagerGuidance>>
    ELSE <<>>

\* Mutant: the block is added for a detected emotion only
DetectedState_EmotionOnly(detected) ==
    IF detected.emotion # NoEmotion
    THEN <<[piece |-> "detectedHeader"],
           [piece |-> "facial", emotion |-> detected.emotion],
           [piece |-> "awareness"]>>
    ELSE <<>>

\* Lines 58-70: the detected emotional state
DetectedState(detected) ==
    IF detected.emotion # NoEmotion \/ detected.toneOfVoice # NoEmotion
    THEN <<[piece |-> "detectedHeader"]>>
         \o (IF detected.emotion # NoEmotion
             THEN <<[piece |-> "facial", emotion |-> detected.emotion]>> ELSE <<>>)
         \o (IF detected.toneOfVoice # NoEmotion
             THEN <<[piece |-> "voice", toneOfVoice |-> detected.toneOfVoice]>> ELSE <<>>)
         \o <<[piece |-> "awareness"]>>
    ELSE <<>>

\* Array.prototype.slice(-k): a copy of the last k elements, of all if there are fewer
slice(list, k) ==
    IF Len(list) <= k THEN list ELSE SubSeq(list, Len(list) - k + 1, Len(list))

\* Array.prototype.reverse()
reverse(list) == [i \in 1..Len(list) |-> list[Len(list) + 1 - i]]

\* String.prototype.toUpperCase() on a role
toUpperCase(role) ==
    IF role = "user" THEN "USER"
    ELSE IF role = "assistant" THEN "ASSISTANT"
    ELSE role

\* Mutant: the first ten messages are taken, not the last ten
recentMessages_FirstTen(previousMessages) ==
    reverse(SubSeq(previousMessages, 1,
                   IF Len(previousMessages) <= 10 THEN Len(previousMessages) ELSE 10))

\* The arrays of lines 73-79 before line 77: the caller's array, which
\* previousMessages refers to, and no recentMessages yet
Arrays(previousMessages) == [caller |-> previousMessages, recent |-> <<>>]

\* Mutant: recentMessages is the caller's array itself, reversed in place
ArraysAfter_NoCopy(previousMessages) ==
    IF Len(previousMessages) > 0
    THEN [caller |-> reverse(previousMessages), recent |-> reverse(previousMessages)]
    ELSE Arrays(previousMessages)

\* The arrays after lines 73-79: slice(-10) makes recentMessages a new array,
\* reverse() reverses the array it is called on in place
ArraysAfter(previousMessages) ==
    IF Len(previousMessages) > 0
    THEN LET sliced == [Arrays(previousMessages) EXCEPT !.recent = slice(previousMessages, 10)]
         IN  [sliced EXCEPT !.recent = reverse(@)]
    ELSE Arrays(previousMessages)

\* Lines 77-78: recentMessages as the loop of line 80 reads it
recentMessages(previousMessages) == ArraysAfter(previousMessages).recent

\* Lines 73-84: the conversation history
HistoryContext(previousMessages) ==
    IF Len(previousMessages) > 0
    THEN <<[piece |-> "historyHeader"]>>
         \o [i \in 1..Len(recentMessages(previousMessages)) |->
                [piece   |-> "turn",
                 role    |-> toUpperCase(recentMessages(previousMessages)[i].role),
                 content |-> recentMessages(previousMessages)[i].content]]
    ELSE <<>>

\* Mutant: the history is added before the detected state
formatPrompt_HistoryFirst(params) ==
    LET group == IF params.ageGroup = Omitted THEN "adults" ELSE params.ageGroup
    IN  <<DEFAULT_SYSTEM_MESSAGE>>
        \o AgeGuidance(group)
        \o HistoryContext(params.previousMessages)
        \o DetectedState(params.detected)
        \o <<[piece |-> "current", message |-> params.message]>>

\* formatPrompt, lines 41-89.  A detected object left out is {} (line 43), no
\* emotion and no tone; a history left out is the empty list (line 45); an age
\* group left out is 'adults' (line 44).
formatPrompt(params) ==
    LET group == IF params.ageGroup = Omitted THEN "adults" ELSE params.ageGroup
    IN  <<DEFAULT_SYSTEM_MESSAGE>>
        \o AgeGuidance(group)
        \o DetectedState(params.detected)
        \o HistoryContext(params.previousMessages)
        \o <<[piece |-> "current", message |-> params.message]>>

\* A call of formatPrompt (line 99) returns; the caller's array is what the
\* call left of it
FormatPrompt ==
    /\ promptParams \in PromptInputs
    /\ formattedPrompt = <<>>
    /\ formattedPrompt' = formatPrompt(promptParams)
    /\ promptParams' = [promptParams EXCEPT
                            !.previousMessages = ArraysAfter(@).caller]
    /\ UNCHANGED <<faceVars, chatVars, statsVars>>

----------------------------------------------------------------------------
(* StatsPage.tsx: the vocal samples merged into the emotion statistics *)

\* The most vocal samples of a conversion
MaxTones == 2

\* The VocalTone labels: the keys of mapping, lines 244-250
VocalTones == {"excited", "sad", "angry", "anxious", "neutral", "calm", "uncertain"}

\* The lists of stored vocal samples, by their tones
ToneLists == UNION {[1..n -> VocalTones] : n \in 1..MaxTones}

\* Mutant: the tone is taken as the emotion
mapVocalToneToEmotion_Identity(tone) == tone

\* mapVocalToneToEmotion, lines 242-254: mapping[tone] || 'neutral'
mapVocalToneToEmotion(tone) ==
    IF tone = "excited" THEN "happy"
    ELSE IF tone = "sad" THEN "sad"
    ELSE IF tone = "angry" THEN "angry"
    ELSE IF tone = "anxious" THEN "fearful"
    ELSE IF tone = "neutral" THEN "neutral"
    ELSE IF tone = "calm" THEN "calm"
    ELSE IF tone = "uncertain" THEN "surprised"
    ELSE "neutral"

\* loadData, lines 91-96: voiceTones.map(item => ({... emotion: mapVocalToneToEmotion(item.tone) ...}))
LoadData ==
    /\ voiceTones # <<>>
    /\ voiceData = <<>>
    /\ voiceData' = [i \in 1..Len(voiceTones) |-> mapVocalToneToEmotion(voiceTones[i])]
    /\ UNCHANGED <<voiceTones, faceVars, chatVars, promptVars>>

----------------------------------------------------------------------------
(* puterService.ts: the completion client *)

\* The fallback of callPuterAI, line 123
FallbackConnect ==
    [kind |-> "fallback",
     text |-> "I'm having trouble connecting right now. Could you please try again in a moment?"]

\* The fallback of getEmotionalSupportResponse, line 154
FallbackProcess ==
    [kind |-> "fallback",
     text |-> "I'm here to listen and support you, but I'm having some trouble processing right now. Could you please share your thoughts again?"]

\* What the chat endpoint answers to the prompt of turn t
Reply(t) == [kind |-> "reply", to |-> t]

Turns == 1..MaxTurns

\* isPuterAIAvailable, lines 161-163, and the test of line 95
isPuterAIAvailable == puter \in {"real", "fallback"}

\* A call that has not been made
NoCall ==
    [pc |-> "idle", chat |-> "none", timer |-> "none", winner |-> "none",
     prompt |-> <<>>, outcome |-> Null, result |-> Null]

\* callPuterAI resolving with a response, and rejecting
Resolved(response) == [kind |-> "value", response |-> response]
Rejected == [kind |-> "error"]

\* A well-formed response {message: {content, role}} and one without a message
Response(content) == [message |-> [content |-> content, role |-> "assistant"]]
Malformed == [message |-> Null]

\* Mutant: the catch block of callPuterAI rethrows
CallCatch_Rethrow == Rejected

\* Lines 117-127: the catch block of callPuterAI returns the fallback response
CallCatch == Resolved(Response(FallbackConnect))

\* Lines 95-97: callPuterAI throws when the endpoint is absent
CallUnavailable == Rejected

\* Mutant: getEmotionalSupportResponse has no catch, the error reaches the caller
GesrResult_NoCatch(outcome) ==
    IF outcome.kind = "value" /\ outcome.response.message # Null
    THEN outcome.response.message.content
    ELSE [kind |-> "error"]

\* Lines 140-155: response.message.content, or the catch block's own fallback
\* when callPuterAI rejected or the response has no message
GesrResult(outcome) ==
    IF outcome.kind = "value" /\ outcome.response.message # Null
    THEN outcome.response.message.content
    ELSE FallbackProcess

\* Lines 141-149: the PromptParams getEmotionalSupportResponse hands to callPuterAI
GesrParams(message, emotion, vocalTone, group, previousMessages) ==
    [message          |-> message,
     detected         |-> [emotion |-> emotion, toneOfVoice |-> vocalTone],
     ageGroup         |-> group,
     previousMessages |-> previousMessages]

\* getEmotionalSupportResponse up to the await of line 114 (lines 140-141, 95-114):
\* the endpoint test, the prompt of line 99, the timer, the chat call.  A chat call that throws at once
\* is caught on line 117 with its timer left armed.
CallStart(params, chatThrows) ==
    IF ~isPuterAIAvailable
    THEN [pc |-> "callSettled", chat |-> "none", timer |-> "none",
          winner |-> "unavailable", prompt |-> <<>>,
          outcome |-> CallUnavailable, result |-> Null]
    ELSE IF chatThrows
    THEN [pc |-> "callSettled", chat |-> "threw", timer |-> "armed",
          winner |-> "chatThrew", prompt |-> formatPrompt(params),
          outcome |-> CallCatch, result |-> Null]
    ELSE [pc |-> "racing", chat |-> "pending", timer |-> "armed",
          winner |-> "none", prompt |-> formatPrompt(params),
          outcome |-> Null, result |-> Null]

\* The ways a pending chat call settles
ChatSettles == {"resolved", "malformed", "rejected"}

\* What Promise.race of line 114 yields when the chat call settles first
RaceOnChat(t, how) ==
    IF how = "resolved" THEN Resolved(Response(Reply(t)))
    ELSE IF how = "malformed" THEN Resolved(Malformed)
    ELSE CallCatch

\* Mutant: the race never settles
RaceOpen_Never(call) == FALSE

\* Mutant: a promise that settles after the race was decided decides it again
RaceOpen_Loser(call) == call.pc \in {"racing", "callSettled"}

\* Promise.race of line 114 settles once, with the first of its two promises to
\* settle: the await of line 114 is still pending
RaceOpen(call) == call.pc = "racing"

\* A rejected promise that has no reaction (an unhandledrejection event): the
\* timeout promise of a call whose chat call threw on line 111, before
\* Promise.race of line 114 could put its reaction on it
Unhandled(call) == call.timer = "fired" /\ call.chat = "threw"

\* The chat promise of turn t settles; it decides the race if the race is open
ChatSettle(t, how) ==
    /\ calls[t].chat = "pending"
    /\ puter = "fallback" => how = "resolved"      \* lines 184-208 always resolve
    /\ calls' = [calls EXCEPT ![t] =
          IF RaceOpen(calls[t])
          THEN [@ EXCEPT !.chat = how, !.pc = "callSettled",
                         !.winner = IF how = "rejected" THEN "chatRejected"
                                    ELSE IF how = "malformed" THEN "chatMalformed"
                                    ELSE "chatResolved",
                         !.outcome = RaceOnChat(t, how)]
          ELSE IF calls[t].pc = "closed" THEN [@ EXCEPT !.chat = "settled"]
          ELSE [@ EXCEPT !.chat = how]]
    /\ UNCHANGED <<puter, page, currentEmotion, currentVocalTone, ageGroup, messages,
                   processing, turns, lastSend, faceVars, promptVars, statsVars>>

\* The timer of lines 104-107 fires; it decides the race if the race is open.
\* The fallback endpoint answers after 800 ms, before the 15 s of the timer.
TimerFire(t) ==
    /\ calls[t].timer = "armed"
    /\ puter = "fallback" => calls[t].chat # "pending"
    /\ calls' = [calls EXCEPT ![t] =
          IF RaceOpen(calls[t])
          THEN [@ EXCEPT !.timer = "fired", !.pc = "callSettled",
                         !.winner = "timeout", !.outcome = CallCatch]
          ELSE [@ EXCEPT !.timer = "fired"]]
    /\ UNCHANGED <<puter, page, currentEmotion, currentVocalTone, ageGroup, messages,
                   processing, turns, lastSend, faceVars, promptVars, statsVars>>

\* getEmotionalSupportResponse resumes after its await (lines 141-155) and resolves
GesrSettle(t) ==
    /\ calls[t].pc = "callSettled"
    /\ calls' = [calls EXCEPT ![t] =
                    [@ EXCEPT !.pc = "resolved", !.result = GesrResult(calls[t].outcome)]]
    /\ UNCHANGED <<puter, page, currentEmotion, currentVocalTone, ageGroup, messages,
                   processing, turns, lastSend, faceVars, promptVars, statsVars>>

\* loadPuterJs / initializePuterJs, lines 168-249, called by VoiceTherapy's loadModels:
\* installs the fallback endpoint when window.puter is undefined
InitializePuterJs ==
    /\ page = "voice"
    /\ puter' = IF isPuterAIAvailable THEN puter
                ELSE IF puter = "undefined" THEN "fallback"
                ELSE puter
    /\ UNCHANGED <<page, currentEmotion, currentVocalTone, ageGroup, messages, processing,
                   turns, lastSend, calls, faceVars, promptVars, statsVars>>

----------------------------------------------------------------------------
(* The conversation session (usePuterAI) and the pages' handlers *)

\* A text as its sequence of tokens; " " is white space
Texts == { <<>>, <<" ">>, <<"A">>, <<" ", "B">> }

\* The tone labels the speech hook passes on; NoEmotion is undefined
Tones == {NoEmotion, "calm"}

RECURSIVE TrimStart(_)
TrimStart(text) ==
    IF text # <<>> /\ Head(text) = " " THEN TrimStart(Tail(text)) ELSE text

RECURSIVE TrimEnd(_)
TrimEnd(text) ==
    IF text # <<>> /\ text[Len(text)] = " "
    THEN TrimEnd(SubSeq(text, 1, Len(text) - 1)) ELSE text

\* String.prototype.trim
Trim(text) == TrimEnd(TrimStart(text))

\* lowerText.includes(word), for the texts of the model
Includes(text, word) == \E i \in 1..Len(text) : text[i] = word

\* TextTherapy.handleSendMessage, lines 34-49: the keyword sentiment
TextEmotion(text) ==
    IF \E w \in {"happy", "glad", "good", "excited"} : Includes(text, w) THEN "happy"
    ELSE IF \E w \in {"sad", "upset", "depressed", "unhappy"} : Includes(text, w) THEN "sad"
    ELSE IF \E w \in {"wow", "whoa", "amazing", "shocked"} : Includes(text, w) THEN "surprised"
    ELSE IF \E w \in {"angry", "mad", "furious", "annoyed"} : Includes(text, w) THEN "angry"
    ELSE "neutral"

UserMessage(t, text, emotion, tone) ==
    [role |-> "user", turn |-> t, content |-> [kind |-> "text", words |-> text],
     mood |-> [emotion |-> emotion, tone |-> tone]]

AssistantMessage(t, content) ==
    [role |-> "assistant", turn |-> t, content |-> content, mood |-> Null]

\* The history the session hands over: role and content of the messages so far
History(list) ==
    [i \in 1..Len(list) |-> [role |-> list[i].role, content |-> list[i].content]]

\* Mutant: the session accepts a send while it is processing
SendRejected_Never == FALSE

\* send is rejected while the session is processing
SendRejected == processing

\* sendMessage(speechResult, emotion, tone): rejected while processing; else the
\* flag is set, the user message appended and the completion requested with the
\* session's age group and history
sendMessage(text, emotion, tone, chatThrows) ==
    IF SendRejected
    THEN /\ lastSend' = "rejected"
         /\ UNCHANGED <<messages, processing, turns, calls>>
    ELSE /\ turns < MaxTurns
         /\ turns' = turns + 1
         /\ processing' = TRUE
         /\ messages' = Append(messages, UserMessage(turns + 1, text, emotion, tone))
         /\ calls' = [calls EXCEPT ![turns + 1] =
               CallStart(GesrParams(text, emotion, tone, ageGroup, History(messages)),
                         chatThrows)]
         /\ lastSend' = "accepted"

\* A call whose result has been delivered: its promises are dropped, and only
\* what can still happen to it is kept, its chat call settling and its timer firing
Closed(call) ==
    [pc |-> "closed", chat |-> IF call.chat = "pending" THEN "pending" ELSE "settled",
     timer |-> call.timer, winner |-> "none", prompt |-> <<>>,
     outcome |-> Null, result |-> Null]

\* The session resumes when the completion has resolved: the assistant message
\* is appended and the flag cleared
SessionResume(t) ==
    /\ calls[t].pc = "resolved"
    /\ messages' = Append(messages, AssistantMessage(t, calls[t].result))
    /\ processing' = FALSE
    /\ calls' = [calls EXCEPT ![t] = Closed(calls[t])]
    /\ UNCHANGED <<puter, page, currentEmotion, currentVocalTone, ageGroup, turns, lastSend,
                   faceVars, promptVars, statsVars>>

\* Only a real endpoint can throw at the call itself
MayThrow(chatThrows) == chatThrows => puter = "real"

\* VoiceTherapy.handleSpeech, lines 93-104
handleSpeech(text, vocalTone, chatThrows) ==
    /\ page = "voice"
    /\ MayThrow(chatThrows)
    /\ IF Trim(text) # <<>>
       THEN /\ currentVocalTone' = IF vocalTone # NoEmotion THEN vocalTone
                                   ELSE currentVocalTone
            /\ sendMessage(text, currentEmotion, vocalTone, chatThrows)
       ELSE UNCHANGED <<currentVocalTone, messages, processing, turns, calls, lastSend>>
    /\ UNCHANGED <<puter, page, currentEmotion, ageGroup, faceVars, promptVars, statsVars>>

\* TextTherapy.handleSendMessage, lines 31-62
handleSendMessage(text, chatThrows) ==
    /\ page = "text"
    /\ MayThrow(chatThrows)
    /\ IF Trim(text) # <<>>
       THEN /\ currentEmotion' = TextEmotion(text)
            /\ sendMessage(text, TextEmotion(text), NoEmotion, chatThrows)
       ELSE UNCHANGED <<currentEmotion, messages, processing, turns, calls, lastSend>>
    /\ UNCHANGED <<puter, page, currentVocalTone, ageGroup, faceVars, promptVars, statsVars>>

\* Mutant: whatever is selected, the age group becomes children
SetAgeGroup_Children(value) == "children"

\* setAgeGroup of the session: the value is kept for the sends to come
SetAgeGroup(value) == value

\* handleAgeGroupChange of VoiceTherapy (lines 113-115) and of TextTherapy
\* (lines 26-28)
handleAgeGroupChange(value) ==
    /\ ageGroup' = SetAgeGroup(value)
    /\ UNCHANGED <<puter, page, currentEmotion, currentVocalTone, messages, processing,
                   turns, lastSend, calls, faceVars, promptVars, statsVars>>

----------------------------------------------------------------------------

InitFace ==
    /\ isModelLoading = FALSE
    /\ modelsLoaded = FALSE
    /\ emotionHistory = <<>>
    /\ loadPc = [c \in Callers |-> "idle"]
    /\ loadHow = [c \in Callers |-> "none"]
    /\ detectPending = 0
    /\ overtaken = <<>>
    /\ lastDetect = [kind |-> "none", returned |-> Null]

\* A page is mounted; window.puter is whatever the host page provided
InitChat ==
    /\ puter \in {"undefined", "noAi", "real"}
    /\ page \in {"voice", "text"}
    /\ currentEmotion = "neutral"          \* useState('neutral')
    /\ currentVocalTone = NoEmotion        \* useState(undefined)
    /\ ageGroup = "teenagers"              \* defaultAgeGroup: 'teenagers'
    /\ messages = <<>>
    /\ processing = FALSE
    /\ turns = 0
    /\ lastSend = "none"
    /\ calls = [t \in Turns |-> NoCall]

\* The face module with no page mounted, as the chat scenario leaves it
IdleChat ==
    /\ puter = "undefined"
    /\ page = "voice"
    /\ currentEmotion = "neutral"
    /\ currentVocalTone = NoEmotion
    /\ ageGroup = "teenagers"
    /\ messages = <<>>
    /\ processing = FALSE
    /\ turns = 0
    /\ lastSend = "none"
    /\ calls = [t \in Turns |-> NoCall]

NextChat ==
    \/ \E text \in Texts, tone \in Tones, th \in BOOLEAN : handleSpeech(text, tone, th)
    \/ \E text \in Texts, th \in BOOLEAN : handleSendMessage(text, th)
    \/ \E t \in Turns, how \in ChatSettles : ChatSettle(t, how)
    \/ \E t \in Turns : TimerFire(t)
    \/ \E t \in Turns : GesrSettle(t)
    \/ \E t \in Turns : SessionResume(t)
    \/ InitializePuterJs

\* The age groups of the pages' selector
AgeGroups == {"children", "teenagers", "adults"}

\* The age-group scenario: the user changes the age group at any moment, before,
\* during and after turns whose utterance is A and whose chat call resolves or
\* runs into the timeout
NextAge ==
    \/ \E value \in AgeGroups : handleAgeGroupChange(value)
    \/ handleSpeech(<<"A">>, NoEmotion, FALSE)
    \/ handleSendMessage(<<"A">>, FALSE)
    \/ \E t \in Turns : ChatSettle(t, "resolved")
    \/ \E t \in Turns : TimerFire(t)
    \/ \E t \in Turns : GesrSettle(t)
    \/ \E t \in Turns : SessionResume(t)
    \/ InitializePuterJs

\* Every call site and every classifier result
NextFace ==
    \/ \E c \in Callers : LoadCall(c)
    \/ \E c \in Callers : LoadStageDone(c)
    \/ \E c \in Callers, s \in BOOLEAN : LoadStageFailed(c, s)
    \/ \E video \in BOOLEAN : DetectCall(video)
    \/ \E o \in DetectOutcomes : DetectSettle(o)

\* The classifier results of the loader scenario: a throw, no face, one face
LoaderOutcomes ==
    {[kind |-> "throw"], [kind |-> "noFace"],
     [kind |-> "face", expressions |-> Expr(5, 90, 3, 1, 0, 1, 0)]}

\* The loader scenario: both call sites of loadFaceModel in every interleaving,
\* detections with the results of LoaderOutcomes
NextLoader ==
    \/ \E c \in Callers : LoadCall(c)
    \/ \E c \in Callers : LoadStageDone(c)
    \/ \E c \in Callers, s \in BOOLEAN : LoadStageFailed(c, s)
    \/ \E video \in BOOLEAN : DetectCall(video)
    \/ \E o \in LoaderOutcomes : DetectSettle(o)

\* The window scenario: the models are loaded by App's preload alone,
\* detections with every classifier result of DetectOutcomes
NextWindow ==
    \/ LoadCall("App")
    \/ LoadStageDone("App")
    \/ \E s \in BOOLEAN : LoadStageFailed("App", s)
    \/ \E video \in BOOLEAN : DetectCall(video)
    \/ \E o \in DetectOutcomes : DetectSettle(o)

\* formatPrompt has not been called
IdlePrompt ==
    /\ promptParams = Null
    /\ formattedPrompt = <<>>

\* The statistics page is not open
IdleStats ==
    /\ voiceTones = <<>>
    /\ voiceData = <<>>

\* A page is mounted over the freshly loaded modules
Init == InitFace /\ InitChat /\ IdlePrompt /\ IdleStats

\* The modules freshly loaded, the session untouched
InitIdle == InitFace /\ IdleChat /\ IdlePrompt /\ IdleStats

\* formatPrompt is about to be called with any of the PromptInputs
InitPrompt ==
    /\ InitFace /\ IdleChat /\ IdleStats
    /\ promptParams \in PromptInputs
    /\ formattedPrompt = <<>>

\* The statistics page opens over any of the ToneLists
InitStats ==
    /\ InitFace /\ IdleChat /\ IdlePrompt
    /\ voiceTones \in ToneLists
    /\ voiceData = <<>>

NextPrompt == FormatPrompt

NextStats == LoadData

Next == NextFace \/ NextChat \/ NextAge \/ NextPrompt \/ NextStats

\* The face module alone, in its two scenarios
SpecLoader == InitIdle /\ [][NextLoader]_vars

SpecWindow == InitIdle /\ [][NextWindow]_vars

\* formatPrompt alone, on every input of PromptInputs
SpecPrompt == InitPrompt /\ [][NextPrompt]_vars

\* The statistics page converts every list of ToneLists
SpecStats == InitStats /\ [][NextStats]_vars

\* A page's session and the completion client
SpecChat == Init /\ [][NextChat]_vars

\* A page's session while the user changes the age group
SpecAge == Init /\ [][NextAge]_vars

\* Timers fire and suspended calls resume: the event loop runs every callback
\* that is due, the 800 ms timer of the fallback endpoint (line 200) included
FairChat ==
    /\ SpecChat
    /\ \A t \in Turns : WF_vars(TimerFire(t))
    /\ \A t \in Turns : WF_vars(puter = "fallback" /\ ChatSettle(t, "resolved"))
    /\ \A t \in Turns : WF_vars(GesrSettle(t))
    /\ \A t \in Turns : WF_vars(SessionResume(t))

Spec == Init /\ [][Next]_vars

----------------------------------------------------------------------------
(* Properties of loadFaceModel *)

\* The call sites whose call is inside the model-loading sequence
InFlight == {c \in Callers : loadPc[c] \in StageNames}

\* C1: however the calls of loadFaceModel interleave, the calls made before a
\* load has settled start the model-loading sequence exactly once: while a load
\* is in flight exactly one call is inside the sequence, never two, and a call
\* made meanwhile returns without entering it.
C1_OneLoadInFlight ==
    /\ Cardinality(InFlight) <= 1
    /\ isModelLoading <=> Cardinality(InFlight) = 1
    /\ \A c \in Callers : loadHow[c] = "skippedLoading" => loadPc[c] = "resolved"

\* A second call came while the first call's load was in flight, and returned
C1_Witness ==
    /\ loadPc["App"] = "faceLandmark68Net"
    /\ loadHow["VoiceTherapy"] = "skippedLoading"
    /\ ~modelsLoaded

\* C13: once modelsLoaded is true, every later call of loadFaceModel resolves
\* at once without entering the model-loading sequence again: no call is inside
\* the sequence while the models are loaded, and a call made then returns as
\* skipped and leaves both flags as they were.
C13_LoadedNeverReloads ==
    /\ [](modelsLoaded => InFlight = {})
    /\ [][\A c \in Callers :
            (modelsLoaded /\ LoadCall(c))
            => /\ loadPc'[c] = "resolved"
               /\ loadHow'[c] = "skippedLoaded"
               /\ modelsLoaded' /\ ~isModelLoading']_vars

\* App's call loaded the models and VoiceTherapy's later call returned at once
C13_Witness ==
    /\ modelsLoaded
    /\ loadHow["App"] = "loaded"
    /\ loadHow["VoiceTherapy"] = "skippedLoaded"
    /\ loadPc["VoiceTherapy"] = "resolved"

\* C14: when any step of the model load fails, the call of loadFaceModel still
\* resolves and does not throw, the models are left not loaded and no longer
\* loading, and a detection called while they are not loaded returns null.
C14_FailureResolves ==
    [][/\ \A c \in Callers, serialisable \in BOOLEAN :
            LoadStageFailed(c, serialisable)
            => /\ loadPc'[c] = "resolved"
               /\ ~modelsLoaded' /\ ~isModelLoading'
       /\ \A video \in BOOLEAN :
            (~modelsLoaded /\ DetectCall(video))
            => /\ lastDetect'.returned = Null
               /\ emotionHistory' = emotionHistory]_vars

\* C16: a call of loadFaceModel made while a load is in flight attaches to that
\* load: it does not resolve before the load in flight has settled, so that the
\* caller, reading isModelLoaded() after awaiting it, sees that load's outcome.
C16_AttachesToLoad ==
    [][\A c \in Callers :
            (isModelLoading /\ LoadCall(c))
            => /\ loadPc'[c] # "resolved"
               /\ loadPc'[c] # "rejected"]_vars

----------------------------------------------------------------------------
(* Properties of the sample window and of getStableEmotion *)

\* How often a label occurs in a window
Occurrences(history, label) ==
    Cardinality({i \in 1..Len(history) : history[i].emotion = label})

RECURSIVE SumConfidence(_)
\* The sum of the confidences of all entries of a window
SumConfidence(history) ==
    IF history = <<>> THEN 0
    ELSE Head(history).confidence + SumConfidence(Tail(history))

\* C6: with fewer than 3 samples in the window the stable-emotion query
\* returns null.
C6_FewSamplesNull ==
    Len(emotionHistory) < 3 => getStableEmotion(emotionHistory) = Null

\* Two samples, both of one label, have been admitted
C6_Witness ==
    /\ Len(emotionHistory) = 2
    /\ emotionHistory[1].emotion = emotionHistory[2].emotion
    /\ lastDetect.kind = "admitted"

\* C7: in a window of 3 to 5 samples in which one label fills more than half of
\* the entries, the stable-emotion query returns a verdict with that label.
C7_MajorityLabel ==
    \A label \in Emotions :
        (/\ Len(emotionHistory) \in 3..5
         /\ 2 * Occurrences(emotionHistory, label) > Len(emotionHistory))
        => /\ getStableEmotion(emotionHistory).kind = "verdict"
           /\ getStableEmotion(emotionHistory).emotion = label

\* A window of 3 whose majority label is not the label that entered first
C7_Witness ==
    /\ Len(emotionHistory) = 3
    /\ emotionHistory[1].emotion = "sad"
    /\ Occurrences(emotionHistory, "happy") = 2

\* C8: the confidence of a verdict is the sum of the confidences of all
\* entries of the window, whatever their label, divided by their number.
C8_MeanOfAll ==
    LET verdict == getStableEmotion(emotionHistory)
    IN  verdict # Null =>
            verdict.confidence.num * Len(emotionHistory)
                = SumConfidence(emotionHistory) * verdict.confidence.den

\* The window happy 0.9, happy 0.8, sad 0.3: the verdict is happy at 200/3
C8_Witness ==
    /\ emotionHistory = << [emotion |-> "happy", confidence |-> 90],
                           [emotion |-> "happy", confidence |-> 80],
                           [emotion |-> "sad",   confidence |-> 30] >>
    /\ getStableEmotion(emotionHistory)
         = [kind |-> "verdict", emotion |-> "happy",
            confidence |-> [num |-> 200, den |-> 3]]

\* C9: no entry of the window has a confidence below 0.2, and a detection whose
\* best score is below 0.2 leaves the window and the stable-emotion verdict as
\* they were.
C9_FloorKept ==
    /\ [](\A i \in 1..Len(emotionHistory) : emotionHistory[i].confidence >= 20)
    /\ [][\A o \in DetectOutcomes :
            (/\ detectPending' < detectPending
             /\ o.kind = "face"
             /\ Dominant(o.expressions).confidence < 20
             /\ DetectSettle(o))
            => /\ emotionHistory' = emotionHistory
               /\ getStableEmotion(emotionHistory') = getStableEmotion(emotionHistory)]_vars

\* A below-floor sample was offered while the window held a verdict
C9_Witness ==
    /\ lastDetect.kind = "belowFloor"
    /\ getStableEmotion(emotionHistory) # Null

\* C10: the window never holds more than 5 samples, and admitting a sample into
\* a window of 5 removes the oldest entry, keeps the other four in their order
\* and puts the new sample last.
C10_FifoOfFive ==
    /\ [](Len(emotionHistory) <= 5)
    /\ [][\A o \in DetectOutcomes :
            (/\ detectPending' < detectPending
             /\ Len(emotionHistory) = 5
             /\ o.kind = "face"
             /\ Dominant(o.expressions).confidence >= 20
             /\ DetectSettle(o))
            => emotionHistory' = << emotionHistory[2], emotionHistory[3],
                                    emotionHistory[4], emotionHistory[5],
                                    Dominant(o.expressions) >>]_vars

\* A sample was admitted into a full window, whose entries differ
C10_Witness ==
    /\ lastDetect.kind = "admittedEvicting"
    /\ Len(emotionHistory) = 5
    /\ emotionHistory[4] # emotionHistory[5]
    /\ emotionHistory[1] # emotionHistory[2]

\* C15: a detection that yields no sample (the models are not loaded or there
\* is no video, the frame holds no face, or the classifier throws) returns null
\* and leaves the window exactly as it was: nothing is pushed in place of the
\* missing sample.
C15_NoSampleNoChange ==
    [][/\ \A video \in BOOLEAN :
            ((~modelsLoaded \/ ~video) /\ DetectCall(video))
            => /\ lastDetect'.returned = Null
               /\ emotionHistory' = emotionHistory
       /\ \A o \in {[kind |-> "throw"], [kind |-> "noFace"]} :
            (detectPending' < detectPending /\ DetectSettle(o))
            => /\ lastDetect'.returned = Null
               /\ emotionHistory' = emotionHistory]_vars

\* A frame without a face was seen while the window held two samples
C15_Witness ==
    /\ lastDetect.kind = "noFace"
    /\ lastDetect.returned = Null
    /\ Len(emotionHistory) = 2

\* The labels that occur most often in a window
TopLabels(history) ==
    {a \in Emotions :
        /\ Occurrences(history, a) > 0
        /\ \A b \in Emotions : Occurrences(history, b) <= Occurrences(history, a)}

\* The position of the latest occurrence of a label in a window, 0 if it has none
LastOccurrence(history, label) ==
    LET at == {i \in 1..Len(history) : history[i].emotion = label}
    IN  IF at = {} THEN 0 ELSE CHOOSE i \in at : \A j \in at : j <= i

\* C17: when two labels share the highest count of the window, the verdict of
\* the stable-emotion query carries the tied label whose latest occurrence is
\* the most recent one, not the label that entered the window first.
C17_TieMostRecent ==
    LET verdict == getStableEmotion(emotionHistory)
        top     == TopLabels(emotionHistory)
    IN  (verdict # Null /\ Cardinality(top) >= 2)
        => /\ verdict.emotion \in top
           /\ \A b \in top : LastOccurrence(emotionHistory, b)
                                <= LastOccurrence(emotionHistory, verdict.emotion)

\* C18: the stable-emotion query returns a verdict only if the label of the
\* verdict fills at least ceil(n/2) of the n entries of the window, and it
\* returns null whenever no label fills that many.
C18_QuorumMet ==
    LET verdict == getStableEmotion(emotionHistory)
        n       == Len(emotionHistory)
    IN  /\ verdict # Null => 2 * Occurrences(emotionHistory, verdict.emotion) >= n
        /\ (\A a \in Emotions : 2 * Occurrences(emotionHistory, a) < n) => verdict = Null

\* Four samples of which exactly two carry the label sad and no other label
\* occurs twice: a verdict for sad at exactly the quorum
C18_Witness ==
    /\ Len(emotionHistory) = 4
    /\ Occurrences(emotionHistory, "sad") = 2
    /\ TopLabels(emotionHistory) = {"sad"}
    /\ getStableEmotion(emotionHistory).kind = "verdict"
    /\ getStableEmotion(emotionHistory).emotion = "sad"

\* C19: a verdict is returned only when one label holds a strict majority of
\* the window: whenever the stable-emotion query returns a verdict for a window
\* of 3 to 5 samples, its label fills strictly more than half of the entries.
C19_StrictMajority ==
    LET verdict == getStableEmotion(emotionHistory)
    IN  (verdict # Null /\ Len(emotionHistory) \in 3..5)
        => 2 * Occurrences(emotionHistory, verdict.emotion) > Len(emotionHistory)

\* C22: the window, read from oldest to newest, is in the order in which the
\* detections were invoked, also when calls overlap and a later call's
\* classifier settles first: no sample is pushed behind a sample of a call that
\* was invoked later.
C22_InvocationOrder ==
    [][\A i \in 1..detectPending :
          (/\ detectPending' = detectPending - 1
           /\ lastDetect'.kind \in {"admitted", "admittedEvicting"}
           /\ overtaken' = Overtake(overtaken, i))
          => ~overtaken[i]]_vars

\* C22, amended: the window, read from oldest to newest, is in the order in
\* which the classifier results settled: whichever suspended call resumes with
\* an admitted sample, that sample becomes the newest entry behind the entries
\* already there, and the calls invoked before it that are still suspended will
\* put their samples behind it.
C22_SettlementOrder ==
    [][\A o \in DetectOutcomes :
            (/\ detectPending' < detectPending
             /\ o.kind = "face"
             /\ Dominant(o.expressions).confidence >= 20
             /\ DetectSettle(o))
            => /\ emotionHistory'[Len(emotionHistory')] = Dominant(o.expressions)
               /\ \A k \in 1..(Len(emotionHistory') - 1) :
                     emotionHistory'[k]
                        = emotionHistory[k + Len(emotionHistory) + 1 - Len(emotionHistory')]
               /\ \E i \in 1..detectPending :
                     /\ Len(overtaken') = detectPending - 1
                     /\ \A j \in 1..(detectPending - 1) : overtaken'[j] <=> j < i]_vars

\* Two calls overlapped and the later one's sample, sad, is in the window
\* while the earlier call is still suspended; its sample will come behind
C22_Witness ==
    /\ detectPending = 1
    /\ overtaken = <<TRUE>>
    /\ lastDetect.kind = "admitted"
    /\ Len(emotionHistory) = 1
    /\ emotionHistory[1].emotion = "sad"

----------------------------------------------------------------------------
(* Properties of the session and of the completion client *)

\* The turns whose completion request is outstanding
Outstanding == {t \in Turns : calls[t].pc \in {"racing", "callSettled", "resolved"}}

UserMessages(list) == SelectSeq(list, LAMBDA m : m.role = "user")

\* C2: while processing is true no send is accepted: no step appends a user
\* message or starts a completion request, and at every moment at most one
\* completion request is outstanding.
C2_SingleFlight ==
    /\ [](Cardinality(Outstanding) <= 1)
    /\ [][processing =>
            /\ UserMessages(messages') = UserMessages(messages)
            /\ turns' = turns
            /\ \A t \in Turns : calls[t].pc = "idle" => calls'[t].pc = "idle"]_vars

\* A send was attempted and rejected while the first turn's request was racing
C2_Witness ==
    /\ lastSend = "rejected"
    /\ processing
    /\ calls[1].pc = "racing"
    /\ Len(messages) = 1

C4_TimeoutFallback ==
    /\ \A t \in Turns : (calls[t].pc = "racing") ~> (calls[t].pc # "racing")
    /\ [](\A t \in Turns :
            calls[t].winner = "timeout" =>
                /\ calls[t].outcome = Resolved(Response(FallbackConnect))
                /\ calls[t].pc = "resolved" => calls[t].result = FallbackConnect)

\* The timer fired on a chat call that has not settled, and the call resolved
C4_Witness ==
    /\ calls[1].pc = "resolved"
    /\ calls[1].winner = "timeout"
    /\ calls[1].chat = "pending"
    /\ calls[1].result = FallbackConnect

\* The failures of a completion call: no endpoint, the chat call rejecting or
\* throwing, the timeout
Failures == {"unavailable", "chatRejected", "chatThrew", "timeout"}

\* C5 as stated: every failed completion resolves with one and the same
\* fallback string, the one of the timeout.
C5_SameFallback ==
    \A t \in Turns :
        (calls[t].pc = "resolved" /\ calls[t].winner \in Failures)
            => calls[t].result = FallbackConnect

\* C5, amended: every failed completion resolves with a fallback string and no
\* error reaches the caller of getEmotionalSupportResponse: the fallback of
\* callPuterAI when the chat call rejects, throws or times out, and the other
\* fallback, of getEmotionalSupportResponse, when the endpoint is absent and
\* callPuterAI rejects.
C5_FallbackPerFailure ==
    \A t \in Turns :
        calls[t].pc = "resolved" =>
            /\ calls[t].result.kind \in {"reply", "fallback"}
            /\ calls[t].winner = "unavailable" =>
                  /\ calls[t].outcome = Rejected
                  /\ calls[t].result = FallbackProcess
            /\ calls[t].winner \in Failures \ {"unavailable"} =>
                  /\ calls[t].outcome = Resolved(Response(FallbackConnect))
                  /\ calls[t].result = FallbackConnect

\* A call made with no endpoint has resolved with the second fallback
C5_Witness ==
    /\ calls[1].pc = "resolved"
    /\ calls[1].winner = "unavailable"
    /\ calls[1].result = FallbackProcess
    /\ calls[1].result # FallbackConnect

\* C21: when the endpoint is absent at startup, isPuterAIAvailable, read after
\* initializePuterJs has resolved, reports the endpoint as unavailable.
C21_AbsentStaysUnavailable ==
    [][(~isPuterAIAvailable /\ InitializePuterJs) => ~isPuterAIAvailable']_vars

\* C20: while the stable-emotion query has no verdict, the emotion passed along
\* with a sent message is absent; it is never a default label such as neutral.
C20_UnknownUntilVerdict ==
    \A i \in 1..Len(messages) :
        (messages[i].role = "user" /\ getStableEmotion(emotionHistory) = Null)
        => messages[i].mood.emotion = NoEmotion

\* The winners of a race of line 114
RaceWinners == {"chatResolved", "chatMalformed", "chatRejected", "timeout"}

Answers(t) ==
    {i \in 1..Len(messages) : messages[i].role = "assistant" /\ messages[i].turn = t}

\* C24: every accepted send returns the session to idle: processing becomes
\* false again with exactly one assistant message appended for that turn,
\* whether the completion succeeded, failed or timed out; no turn is ever
\* answered twice and an idle session has answered every turn.
C24_ReturnsToIdle ==
    /\ \A t \in Turns :
          (turns = t /\ processing) ~> (~processing /\ Cardinality(Answers(t)) = 1)
    /\ [](\A t \in Turns : Cardinality(Answers(t)) <= 1)
    /\ [](~processing => \A t \in 1..turns : Cardinality(Answers(t)) = 1)

\* Two turns are done and the session is idle: the first was answered with the
\* fallback of the timeout, the second by the endpoint
C24_Witness ==
    /\ ~processing
    /\ turns = 2
    /\ Len(messages) = 4
    /\ messages[2] = AssistantMessage(1, FallbackConnect)
    /\ messages[4] = AssistantMessage(2, Reply(2))

\* The age guidance in the prompt of turn t
PromptAge(call) == SelectSeq(call.prompt, LAMBDA p : p.piece = "age")

\* C25: a change of the age group changes no message of the list and not the
\* prompt of a send in flight, whose prompt stays as built until its turn is
\* over; the session keeps the new value, and the prompt built by the next
\* accepted send carries the guidance of the age group then set.
C25_AgeGroupNextSend ==
    /\ [][\A value \in AgeGroups :
            handleAgeGroupChange(value)
            => /\ messages' = messages
               /\ \A t \in Turns : calls'[t].prompt = calls[t].prompt
               /\ ageGroup' = value]_vars
    /\ [][\A t \in Turns :
            (calls[t].prompt # <<>> /\ calls'[t].pc # "closed")
            => calls'[t].prompt = calls[t].prompt]_vars
    /\ [][(turns' = turns + 1 /\ calls'[turns'].prompt # <<>>)
            => PromptAge(calls'[turns'])
                 = (IF ageGroup = "children" THEN <<ChildGuidance>>
                    ELSE IF ageGroup = "teenagers" THEN <<TeenagerGuidance>>
                    ELSE <<>>)]_vars

\* The age group was changed to children while turn 1 was in flight with the
\* guidance for teenagers in its prompt
C25_Witness ==
    /\ calls[1].pc = "racing"
    /\ PromptAge(calls[1]) = <<TeenagerGuidance>>
    /\ ageGroup = "children"
    /\ Len(messages) = 1

----------------------------------------------------------------------------
(* Properties of formatPrompt *)

\* The pieces of one kind in a prompt, in their order
Pieces(prompt, kind) == SelectSeq(prompt, LAMBDA p : p.piece = kind)

\* C11: for a history of n messages the prompt holds exactly the last
\* min(n, 10) of them, the most recent first, each as its role in capitals and
\* its content; older messages do not appear, a history longer than 10 is not
\* an error, and with n = 0 the prompt has no history section at all.
C11_LastTenNewestFirst ==
    formattedPrompt # <<>> =>
        LET previousMessages == promptParams.previousMessages
            n      == Len(previousMessages)
            k      == IF n < 10 THEN n ELSE 10
            listed == Pieces(formattedPrompt, "turn")
        IN  /\ Len(listed) = k
            /\ \A j \in 1..k :
                  /\ listed[j].content = previousMessages[n + 1 - j].content
                  /\ listed[j].role = IF previousMessages[n + 1 - j].role = "user"
                                      THEN "USER" ELSE "ASSISTANT"
            /\ Len(Pieces(formattedPrompt, "historyHeader")) = IF n = 0 THEN 0 ELSE 1

\* A history of 12 messages: the prompt lists messages 12 down to 3
C11_Witness ==
    /\ formattedPrompt # <<>>
    /\ Len(promptParams.previousMessages) = 12
    /\ Len(Pieces(formattedPrompt, "turn")) = 10
    /\ Pieces(formattedPrompt, "turn")[1] = [piece |-> "turn", role |-> "ASSISTANT", content |-> 12]
    /\ Pieces(formattedPrompt, "turn")[10] = [piece |-> "turn", role |-> "USER", content |-> 3]

\* C12: the prompt carries the guidance for children exactly when the age group
\* is children, the different guidance for teenagers exactly when it is
\* teenagers, and no age guidance when it is adults or left out.
C12_AgeGuidance ==
    formattedPrompt # <<>> =>
        LET age == Pieces(formattedPrompt, "age")
        IN  /\ ChildGuidance # TeenagerGuidance
            /\ age = <<ChildGuidance>> <=> promptParams.ageGroup = "children"
            /\ age = <<TeenagerGuidance>> <=> promptParams.ageGroup = "teenagers"
            /\ age = <<>> <=> promptParams.ageGroup \in {"adults", Omitted}

\* A prompt for a teenager: the teenager guidance follows the system message
C12_Witness ==
    /\ promptParams \in PromptInputs
    /\ promptParams.ageGroup = "teenagers"
    /\ Len(formattedPrompt) >= 2
    /\ formattedPrompt[2] = TeenagerGuidance

----------------------------------------------------------------------------
(* Properties of mapVocalToneToEmotion *)

\* The emotion keys of the statistics view, EMOTION_COLORS lines 27-36: the
\* facial labels and calm
StatsEmotions == Emotions \cup {"calm"}

\* C26 as stated: every converted vocal sample carries a label of the
\* facial vocabulary
C26_IntoFacialVocabulary ==
    \A i \in 1..Len(voiceData) : voiceData[i] \in Emotions

\* C26: every converted vocal sample carries an emotion key of the statistics
\* view, and a facial label unless its tone is calm, which stays calm
C26_IntoStatsVocabulary ==
    \A i \in 1..Len(voiceData) :
        /\ voiceData[i] \in StatsEmotions
        /\ voiceTones[i] # "calm" => voiceData[i] \in Emotions
        /\ voiceTones[i] = "calm" => voiceData[i] = "calm"

\* A calm sample and an anxious sample have been converted
C26_Witness ==
    /\ voiceTones = <<"calm", "anxious">>
    /\ voiceData = <<"calm", "fearful">>

----------------------------------------------------------------------------
(* Properties of formatPrompt's segments *)

\* The positions of the pieces of a kind in a prompt
Positions(prompt, kind) == {i \in 1..Len(prompt) : prompt[i].piece = kind}

\* C27: the header of the detected state and the instruction to respond with
\* awareness without mentioning the analysis are in the prompt, once each,
\* exactly when an emotion or a tone was detected; the facial line, naming the
\* emotion, is there exactly when an emotion was detected and the voice line,
\* naming the tone, exactly when a tone was; both lie between the header and
\* the instruction.
C27_AffectBlock ==
    formattedPrompt # <<>> =>
        LET detected == promptParams.detected
            any      == detected.emotion # NoEmotion \/ detected.toneOfVoice # NoEmotion
            header   == Positions(formattedPrompt, "detectedHeader")
            closing  == Positions(formattedPrompt, "awareness")
            facial   == Pieces(formattedPrompt, "facial")
            voice    == Pieces(formattedPrompt, "voice")
        IN  /\ Cardinality(header) = (IF any THEN 1 ELSE 0)
            /\ Cardinality(closing) = (IF any THEN 1 ELSE 0)
            /\ facial = (IF detected.emotion # NoEmotion
                         THEN <<[piece |-> "facial", emotion |-> detected.emotion]>>
                         ELSE <<>>)
            /\ voice = (IF detected.toneOfVoice # NoEmotion
                        THEN <<[piece |-> "voice", toneOfVoice |-> detected.toneOfVoice]>>
                        ELSE <<>>)
            /\ \A i \in Positions(formattedPrompt, "facial") \cup Positions(formattedPrompt, "voice") :
                   /\ \E h \in header : h < i
                   /\ \E c \in closing : i < c

\* A prompt for a detected tone and no detected emotion: the block has the
\* voice line and no facial line
C27_Witness ==
    /\ promptParams \in PromptInputs
    /\ promptParams.detected = [emotion |-> NoEmotion, toneOfVoice |-> "calm"]
    /\ formattedPrompt # <<>>
    /\ Pieces(formattedPrompt, "detectedHeader") = <<[piece |-> "detectedHeader"]>>
    /\ Pieces(formattedPrompt, "voice") = <<[piece |-> "voice", toneOfVoice |-> "calm"]>>
    /\ Pieces(formattedPrompt, "facial") = <<>>
    /\ Pieces(formattedPrompt, "awareness") = <<[piece |-> "awareness"]>>

\* The segment a piece belongs to: 1 the system message, 2 the age guidance,
\* 3 the detected state, 4 the conversation history, 5 the current message
Segment(p) ==
    IF p.piece = "system" THEN 1
    ELSE IF p.piece = "age" THEN 2
    ELSE IF p.piece \in {"detectedHeader", "facial", "voice", "awareness"} THEN 3
    ELSE IF p.piece \in {"historyHeader", "turn"} THEN 4
    ELSE 5

\* C28: every prompt starts with the system message and ends with the current
\* user message followed by the assistant marker, each occurring once, and the
\* pieces in between come segment by segment in the order system message, age
\* guidance, detected state, conversation history, current message.
C28_SegmentOrder ==
    formattedPrompt # <<>> =>
        /\ formattedPrompt[1] = DEFAULT_SYSTEM_MESSAGE
        /\ formattedPrompt[Len(formattedPrompt)] =
               [piece |-> "current", message |-> promptParams.message]
        /\ Positions(formattedPrompt, "system") = {1}
        /\ Positions(formattedPrompt, "current") = {Len(formattedPrompt)}
        /\ \A i, j \in 1..Len(formattedPrompt) :
               i < j => Segment(formattedPrompt[i]) <= Segment(formattedPrompt[j])

\* A prompt in which every segment is present: a child, a detected emotion and
\* tone, a history of two messages
C28_Witness ==
    /\ promptParams = [message |-> <<"A">>,
                       detected |-> [emotion |-> "sad", toneOfVoice |-> "calm"],
                       ageGroup |-> "children",
                       previousMessages |-> HistoryOf(2)]
    /\ Len(formattedPrompt) = 10
    /\ [i \in 1..10 |-> Segment(formattedPrompt[i])] = <<1, 2, 3, 3, 3, 3, 4, 4, 4, 5>>

----------------------------------------------------------------------------
(* Frame of formatPrompt *)

\* C29: a call of formatPrompt leaves the caller's previousMessages as it was,
\* the same entries in the same order.
C29_CallerHistoryUnchanged ==
    [][FormatPrompt => promptParams'.previousMessages = promptParams.previousMessages]_vars

\* After a call with a history of three messages the prompt lists them newest
\* first and the caller's array still has them oldest first
C29_Witness ==
    /\ formattedPrompt # <<>>
    /\ promptParams.previousMessages = HistoryOf(3)
    /\ [i \in 1..3 |-> Pieces(formattedPrompt, "turn")[i].content] = <<3, 2, 1>>
    /\ [i \in 1..3 |-> promptParams.previousMessages[i].content] = <<1, 2, 3>>

----------------------------------------------------------------------------
(* The loaded state of the face module *)

\* C30: once modelsLoaded is true no step sets it back to false, whatever calls
\* of loadFaceModel follow and however they end, and in no state are
\* modelsLoaded and isModelLoading both true.
C30_LoadedAbsorbing ==
    /\ [][modelsLoaded => modelsLoaded']_vars
    /\ [](~(modelsLoaded /\ isModelLoading))

\* The models are loaded and both call sites have called loadFaceModel again
\* since
C30_Witness ==
    /\ modelsLoaded
    /\ ~isModelLoading
    /\ \A c \in Callers : loadHow[c] = "skippedLoaded" /\ loadPc[c] = "resolved"

====
